---- MODULE Spec2Model ----
(***************************************************************************)
(* Model of game_db.py: the SQLite-backed session / move store.            *)
(*                                                                         *)
(* The store is the two tables of init_db.  Every SQL statement is one     *)
(* atomic step.  Python's sqlite3 opens a transaction implicitly before an *)
(* INSERT or UPDATE and never before a SELECT, and _get_conn commits when  *)
(* the with-block is left normally and closes (rolling back) when it is    *)
(* left by an exception.  Hence                                            *)
(*   - the SELECTs of join_session and get_state are separate autocommit   *)
(*     reads: other connections may write between them;                    *)
(*   - an UPDATE or INSERT takes SQLite's single write lock (wlock) and    *)
(*     keeps it until its connection commits or closes.  A statement that  *)
(*     is followed directly by the return (commit) or by a raise (close)   *)
(*     is one step together with that commit or rollback.                  *)
(* A connection that needs the write lock while another holds it waits     *)
(* (SQLite's busy handler); the busy timeout is not modelled.              *)
(***************************************************************************)
EXTENDS Integers, Sequences, FiniteSets, TLC

(* ------------------------------ bounds -------------------------------- *)
\* MAX_PLAYERS is read from the environment: configurations 1..MaxPlayersBound
MaxPlayersBound == 2
\* number of threads that call join_session (each calls it once)
NumJoiners == 3
\* number of threads that serve save_move and get_state calls
NumClients == 2
\* total number of save_move and get_state calls
MaxCalls == 2

\* number of session ids that save_move, get_state and get_results are
\* called with
NumArgSessions == 2
\* number of get_results calls
MaxResultCalls == 1

Joiners == 1..NumJoiners
Clients == 1..NumClients

\* uuid4 values for sessions.id: there is always an unused one
SessionIds == 1..NumJoiners
\* player tokens: joiner p is handed token p (uuid4, line 108).  save_move
\* takes any token with any session, also one no join returned for it
PlayerIds == 1..NumJoiners
\* game_parameters.CHOICES (save_move stores any string it is given)
CHOICES == {"Cooperate", "Defect"}

\* the session_id arguments of get_state and save_move: ids of sessions
\* that exist and ids that are unknown (when the call reads the store)
ArgSessionIds == 1..NumArgSessions

NoSession == 0
NoRow == <<>>

VARIABLES
    MAX_PLAYERS,  \* game_parameters.MAX_PLAYERS, fixed at start-up
    sessions,     \* table sessions: id -> player_count
    moves,        \* table moves in ROWID order: seq of [session_id, player_id, choice]
    wlock,        \* who holds SQLite's write lock: <<kind, process>> or NoRow
    join_pc,      \* joiner -> "idle" | "select" | "update" | "insert" | "done" | "error"
    join_row,     \* joiner -> row fetched by the SELECT: <<id, player_count>> or NoRow
    join_ret,     \* joiner -> session_id returned, or NoSession
    cl_op,        \* client -> "none" | "save_move" | "get_state"
    cl_pc,        \* client -> "idle" | "players" | "count" | "insert"
    cl_args,      \* client -> arguments of the call: [session_id, player_id, choice]
    cl_players,   \* client -> players, read by get_state's first SELECT
    cl_seen,      \* client -> number of moves of the session at that first SELECT
    cl_state,     \* client -> dict get_state returned to save_move, or NoRow
    cl_dup,       \* client -> when save_move was called, had the pair a move already
    calls,        \* number of save_move and get_state calls made so far
    last,         \* the call that completed last: [op, args, state, result, ...]:
                  \*   state: the dict get_state returned (to the caller or to save_move)
                  \*   result: "ok" | "state" | "NotFound" | "InvalidState" | "DuplicateMove"
                  \*   seen, dup: cl_seen and cl_dup of the call
                  \*   live: for get_state, the session's state in the store at the return
    rcalls,       \* number of get_results calls made so far
    res           \* the get_results call that returned last: [session_id, rows]

storeVars == <<sessions, moves>>
joinVars == <<join_pc, join_row, join_ret>>
resVars == <<rcalls, res>>
clVars == <<cl_op, cl_pc, cl_args, cl_players, cl_seen, cl_state, cl_dup, calls, last,
            rcalls, res>>
vars == <<MAX_PLAYERS, sessions, moves, wlock, join_pc, join_row, join_ret,
          cl_op, cl_pc, cl_args, cl_players, cl_seen, cl_state, cl_dup, calls, last,
          rcalls, res>>

(* --------------------------- schema (init_db) ------------------------- *)
\* CHECK(player_count BETWEEN 0 AND MAX_PLAYERS)
CheckPlayerCount(n) == 0 <= n /\ n <= MAX_PLAYERS

\* the rows of moves with a given (session_id, player_id)
MoveRows(sid, pid) ==
    {i \in 1..Len(moves) : moves[i].session_id = sid /\ moves[i].player_id = pid}

\* the moves table declared without its UNIQUE constraint
HasMoveNoUnique(sid, pid) == FALSE

\* UNIQUE (session_id, player_id) on moves: would a new row violate it
HasMove(sid, pid) ==
    \E i \in 1..Len(moves) : moves[i].session_id = sid /\ moves[i].player_id = pid

\* FOREIGN KEY (session_id) REFERENCES sessions(id)
ForeignKeyOk(sid) == sid \in DOMAIN sessions

(* ------------------------- join_session queries ----------------------- *)
\* the same SELECT with <= for <
OpenSessionsLe == {s \in DOMAIN sessions : sessions[s] <= MAX_PLAYERS}

\* SELECT id, player_count FROM sessions WHERE player_count < ?
OpenSessions == {s \in DOMAIN sessions : sessions[s] < MAX_PLAYERS}

\* a SELECT that finds no row, whatever the table holds
SelectOpenRowsNone == {}

\* ... ORDER BY player_count DESC LIMIT 1: the rows fetchone may return
\* (SQLite leaves the order among equal player_count unspecified)
SelectOpenRows ==
    {<<s, sessions[s]>> : s \in {t \in OpenSessions :
                                   \A u \in OpenSessions : sessions[u] <= sessions[t]}}

\* the UPDATE with its two parameters bound to the wrong columns: no row matches
UpdateSessionsNoMatch(sid, pcount) == sessions

\* the UPDATE without "id = ?" in its WHERE clause
UpdateSessionsAnyId(sid, pcount) ==
    [s \in DOMAIN sessions |-> IF sessions[s] = pcount THEN sessions[s] + 1 ELSE sessions[s]]

\* UPDATE sessions SET player_count = player_count + 1
\*   WHERE id = ? AND player_count = ?     -- the table after it
UpdateSessions(sid, pcount) ==
    IF sid \in DOMAIN sessions /\ sessions[sid] = pcount
    THEN [sessions EXCEPT ![sid] = @ + 1]
    ELSE sessions

\* a join that takes the UPDATE for done without looking at cur.rowcount
RowCountIgnored(sid, pcount) == 1

\* cur.rowcount after that UPDATE: the number of rows it changed
RowCount(sid, pcount) ==
    IF UpdateSessions(sid, pcount) # sessions THEN 1 ELSE 0

\* the INSERT without its player_count value: the column's DEFAULT 0
InsertSessionDefault(sid) == sessions @@ (sid :> 0)

\* INSERT INTO sessions (id, player_count) VALUES (?, 1)
InsertSession(sid) == sessions @@ (sid :> 1)

(* ------------------------------ get_state ----------------------------- *)
\* a look-up that answers for an unknown id with a full session
SelectPlayerCountOrFull(sid) ==
    IF sid \in DOMAIN sessions THEN <<sessions[sid]>> ELSE <<MAX_PLAYERS>>

\* SELECT player_count FROM sessions WHERE id = ?; fetchone: the row or None
SelectPlayerCount(sid) ==
    IF sid \in DOMAIN sessions THEN <<sessions[sid]>> ELSE NoRow

\* SELECT COUNT(*) FROM moves WHERE session_id = ?
CountMoves(sid) == Cardinality({i \in 1..Len(moves) : moves[i].session_id = sid})

\* the phase decided without the test of line 173
PhaseOfMovesOnly(players, nmoves) ==
    IF nmoves < players THEN "waiting_for_moves" ELSE "finished"

\* lines 172-178
Phase(players, nmoves) ==
    IF players < MAX_PLAYERS THEN "waiting_for_opponent"
    ELSE IF nmoves < players THEN "waiting_for_moves"
    ELSE "finished"

\* the dict returned at line 180
StateDict(players, nmoves) ==
    [players |-> players, moves |-> nmoves, phase |-> Phase(players, nmoves)]

\* what get_state computes from the store as it is now
LiveState(sid) == StateDict(sessions[sid], CountMoves(sid))

(* -------------------------------- Init -------------------------------- *)
Init ==
    /\ MAX_PLAYERS \in 1..MaxPlayersBound
    /\ sessions = <<>>
    /\ moves = <<>>
    /\ wlock = NoRow
    /\ join_pc = [p \in Joiners |-> "idle"]
    /\ join_row = [p \in Joiners |-> NoRow]
    /\ join_ret = [p \in Joiners |-> NoSession]
    /\ cl_op = [c \in Clients |-> "none"]
    /\ cl_pc = [c \in Clients |-> "idle"]
    /\ cl_args = [c \in Clients |-> NoRow]
    /\ cl_players = [c \in Clients |-> 0]
    /\ cl_seen = [c \in Clients |-> 0]
    /\ cl_state = [c \in Clients |-> NoRow]
    /\ cl_dup = [c \in Clients |-> FALSE]
    /\ calls = 0
    /\ last = NoRow
    /\ rcalls = 0
    /\ res = NoRow

(* ----------------------------- join_session --------------------------- *)
\* the write lock is free, or this connection's open transaction holds it
CanWrite(who) == wlock = NoRow \/ wlock = who

\* lines 105-108: open the connection, draw the player token.  The joiners
\* are interchangeable: they make their calls in the order of their numbers
join_session_call(p) ==
    /\ join_pc[p] = "idle"
    /\ \A q \in Joiners : q < p => join_pc[q] # "idle"
    /\ join_pc' = [join_pc EXCEPT ![p] = "select"]
    /\ UNCHANGED <<MAX_PLAYERS, storeVars, wlock, join_row, join_ret, clVars>>

\* lines 110-124 and 141-142: the SELECT and the branch on its row
join_session_select(p) ==
    /\ join_pc[p] = "select"
    /\ IF SelectOpenRows = {}
       THEN /\ join_pc' = [join_pc EXCEPT ![p] = "insert"]
            /\ join_row' = [join_row EXCEPT ![p] = NoRow]
       ELSE \E row \in SelectOpenRows :
            /\ join_pc' = [join_pc EXCEPT ![p] = "update"]
            /\ join_row' = [join_row EXCEPT ![p] = row]
    /\ UNCHANGED <<MAX_PLAYERS, storeVars, wlock, join_ret, clVars>>

\* lines 125-139: the conditional UPDATE; return (commit) on rowcount 1,
\* ValueError (rollback) on a CHECK violation, else continue inside the
\* transaction the UPDATE opened (session_id and pcount stay bound until the
\* next fetchone)
join_session_update(p) ==
    /\ join_pc[p] = "update"
    /\ CanWrite(<<"join", p>>)
    /\ LET sid == join_row[p][1]
           pcount == join_row[p][2]
           after == UpdateSessions(sid, pcount)
       IN  IF \E s \in DOMAIN after : ~CheckPlayerCount(after[s])
           THEN /\ join_pc' = [join_pc EXCEPT ![p] = "error"]
                /\ wlock' = NoRow
                /\ UNCHANGED <<sessions, join_ret>>
           ELSE IF RowCount(sid, pcount) = 1
           THEN /\ sessions' = after
                /\ join_pc' = [join_pc EXCEPT ![p] = "done"]
                /\ join_ret' = [join_ret EXCEPT ![p] = sid]
                /\ wlock' = NoRow
           ELSE /\ sessions' = after
                /\ join_pc' = [join_pc EXCEPT ![p] = "select"]
                /\ wlock' = <<"join", p>>
                /\ UNCHANGED join_ret
    /\ UNCHANGED <<MAX_PLAYERS, moves, join_row, clVars>>

\* str(uuid.uuid4()) when it is not yet a sessions.id.  Session ids are
\* opaque and interchangeable, so the unused ids are handed out in order
FreshSessionId ==
    CHOOSE s \in SessionIds \ DOMAIN sessions :
        \A u \in SessionIds \ DOMAIN sessions : s <= u

\* lines 142-152: a uuid4 that is not yet a sessions.id: INSERT, return
\* (commit); IntegrityError (the CHECK) is caught like a collision
join_session_insert(p) ==
    /\ join_pc[p] = "insert"
    /\ CanWrite(<<"join", p>>)
    /\ SessionIds \ DOMAIN sessions # {}
    /\ LET sid == FreshSessionId
           after == InsertSession(sid)
       IN  IF CheckPlayerCount(after[sid])
           THEN /\ sessions' = after
                /\ join_pc' = [join_pc EXCEPT ![p] = "done"]
                /\ join_ret' = [join_ret EXCEPT ![p] = sid]
                /\ wlock' = NoRow
           ELSE /\ join_pc' = [join_pc EXCEPT ![p] = "select"]
                /\ wlock' = <<"join", p>>
                /\ UNCHANGED <<sessions, join_ret>>
    /\ UNCHANGED <<MAX_PLAYERS, moves, join_row, clVars>>

\* lines 142-150: a uuid4 that collides with an existing sessions.id:
\* IntegrityError (PRIMARY KEY), continue inside the open transaction
join_session_collide(p) ==
    /\ join_pc[p] = "insert"
    /\ CanWrite(<<"join", p>>)
    /\ SessionIds \cap DOMAIN sessions # {}
    /\ join_pc' = [join_pc EXCEPT ![p] = "select"]
    /\ wlock' = <<"join", p>>
    /\ UNCHANGED <<MAX_PLAYERS, storeVars, join_row, join_ret, clVars>>

(* ------------------------- get_state, save_move ----------------------- *)
\* threads are interchangeable: a call is served by the first idle one
MayCall(c) ==
    /\ cl_pc[c] = "idle"
    /\ calls < MaxCalls
    /\ \A d \in Clients : d < c => cl_pc[d] # "idle"

\* the call of client c ends (return or raise): its connection is closed
\* and the caller sees the result
Complete(c, state, result) ==
    /\ last' = [op |-> cl_op[c], args |-> cl_args[c], state |-> state,
                seen |-> cl_seen[c], dup |-> cl_dup[c], result |-> result,
                live |-> IF cl_op[c] = "get_state" /\ result = "state"
                         THEN LiveState(cl_args[c].session_id) ELSE NoRow]
    /\ cl_op' = [cl_op EXCEPT ![c] = "none"]
    /\ cl_pc' = [cl_pc EXCEPT ![c] = "idle"]
    /\ cl_args' = [cl_args EXCEPT ![c] = NoRow]
    /\ cl_players' = [cl_players EXCEPT ![c] = 0]
    /\ cl_seen' = [cl_seen EXCEPT ![c] = 0]
    /\ cl_state' = [cl_state EXCEPT ![c] = NoRow]
    /\ cl_dup' = [cl_dup EXCEPT ![c] = FALSE]

\* get_state line 159: open the connection
get_state_call(c) ==
    /\ MayCall(c)
    /\ \E sid \in ArgSessionIds : cl_args' = [cl_args EXCEPT ![c] = [session_id |-> sid]]
    /\ cl_op' = [cl_op EXCEPT ![c] = "get_state"]
    /\ cl_pc' = [cl_pc EXCEPT ![c] = "players"]
    /\ calls' = calls + 1
    /\ UNCHANGED <<MAX_PLAYERS, storeVars, wlock, joinVars,
                   cl_players, cl_seen, cl_state, cl_dup, last, resVars>>

\* save_move lines 193-197: open the connection (no statement, so no
\* transaction) and call get_state
save_move_call(c) ==
    /\ MayCall(c)
    /\ \E sid \in ArgSessionIds, pid \in PlayerIds, choice \in CHOICES :
          /\ cl_args' = [cl_args EXCEPT ![c] =
                            [session_id |-> sid, player_id |-> pid, choice |-> choice]]
          /\ cl_dup' = [cl_dup EXCEPT ![c] = MoveRows(sid, pid) # {}]
    /\ cl_op' = [cl_op EXCEPT ![c] = "save_move"]
    /\ cl_pc' = [cl_pc EXCEPT ![c] = "players"]
    /\ calls' = calls + 1
    /\ UNCHANGED <<MAX_PLAYERS, storeVars, wlock, joinVars,
                   cl_players, cl_seen, cl_state, last, resVars>>

\* get_state lines 159-167, called directly or from save_move line 197, on
\* get_state's own connection: SELECT player_count; ValueError if no row
\* (save_move lets it propagate)
get_state_players(c) ==
    /\ cl_pc[c] = "players"
    /\ LET sid == cl_args[c].session_id
           row == SelectPlayerCount(sid)
       IN  IF row # NoRow
           THEN /\ cl_pc' = [cl_pc EXCEPT ![c] = "count"]
                /\ cl_players' = [cl_players EXCEPT ![c] = row[1]]
                /\ cl_seen' = [cl_seen EXCEPT ![c] = CountMoves(sid)]
                /\ UNCHANGED <<cl_op, cl_args, cl_state, cl_dup, last>>
           ELSE Complete(c, NoRow, "NotFound")
    /\ UNCHANGED <<MAX_PLAYERS, storeVars, wlock, joinVars, calls, resVars>>

\* a get_state that records each view as a row of moves
get_state_count_recording(c) ==
    /\ cl_pc[c] = "count"
    /\ cl_op[c] = "get_state"
    /\ Complete(c, StateDict(cl_players[c], CountMoves(cl_args[c].session_id)), "state")
    /\ moves' = Append(moves, [session_id |-> cl_args[c].session_id,
                                player_id |-> 0, choice |-> "viewed"])
    /\ UNCHANGED <<MAX_PLAYERS, sessions, wlock, joinVars, calls, resVars>>

\* get_state lines 169-180, called directly: SELECT COUNT(*), decide the
\* phase, return the dict
get_state_count(c) ==
    /\ cl_pc[c] = "count"
    /\ cl_op[c] = "get_state"
    /\ Complete(c, StateDict(cl_players[c], CountMoves(cl_args[c].session_id)), "state")
    /\ UNCHANGED <<MAX_PLAYERS, storeVars, wlock, joinVars, calls, resVars>>

\* an INSERT that does not take the next ROWID: the row comes first
InsertMoveFirst(a) == <<a>> \o moves

\* INSERT INTO moves (session_id, player_id, choice) VALUES (?, ?, ?):
\* the new row gets the next ROWID
InsertMove(a) == Append(moves, a)

\* save_move without the check of line 198
RejectedFinishedOnly(phase) == phase = "finished"

\* save_move without the check of line 202
RejectedOpponentOnly(phase) == phase = "waiting_for_opponent"

\* save_move lines 198-203: the phases that raise ValueError
Rejected(phase) == phase = "waiting_for_opponent" \/ phase = "finished"

\* get_state lines 169-180 called from save_move (SELECT COUNT(*), phase),
\* then save_move lines 198-203: ValueError on waiting_for_opponent or
\* finished
save_move_count(c) ==
    /\ cl_pc[c] = "count"
    /\ cl_op[c] = "save_move"
    /\ LET state == StateDict(cl_players[c], CountMoves(cl_args[c].session_id))
       IN  IF Rejected(state.phase)
           THEN Complete(c, state, "InvalidState")
           ELSE /\ cl_pc' = [cl_pc EXCEPT ![c] = "insert"]
                /\ cl_state' = [cl_state EXCEPT ![c] = state]
                /\ UNCHANGED <<cl_op, cl_args, cl_players, cl_seen, cl_dup, last>>
    /\ UNCHANGED <<MAX_PLAYERS, storeVars, wlock, joinVars, calls, resVars>>

\* save_move lines 205-215: the INSERT, on save_move's own connection, which
\* took no lock so far and now waits for the write lock; IntegrityError
\* (UNIQUE or FOREIGN KEY) becomes ValueError and the connection closes
\* without commit; else the with-block ends and commits
save_move_insert(c) ==
    /\ cl_pc[c] = "insert"
    /\ CanWrite(<<"move", c>>)
    /\ LET a == cl_args[c]
       IN  IF HasMove(a.session_id, a.player_id) \/ ~ForeignKeyOk(a.session_id)
           THEN /\ Complete(c, cl_state[c], "DuplicateMove")
                /\ UNCHANGED moves
           ELSE /\ Complete(c, cl_state[c], "ok")
                /\ moves' = InsertMove(a)
    /\ wlock' = NoRow
    /\ UNCHANGED <<MAX_PLAYERS, sessions, joinVars, calls, resVars>>

(* ------------------------------ get_results --------------------------- *)
\* the SELECT without its WHERE clause
MovesWhereAny(sid) == moves

\* FROM moves WHERE session_id = ? ORDER BY ROWID: the rows of the session,
\* in the order of the table
MovesWhere(sid) == SelectSeq(moves, LAMBDA m : m.session_id = sid)

\* SELECT player_id, choice ...; line 237: one dict per fetched row
SelectResults(sid) ==
    [k \in 1..Len(MovesWhere(sid)) |->
        [player |-> MovesWhere(sid)[k].player_id, choice |-> MovesWhere(sid)[k].choice]]

\* lines 226-237: one SELECT, fetchall, return; whatever the session_id is
\* (no look-up of the session, no phase check)
get_results ==
    /\ rcalls < MaxResultCalls
    /\ \E sid \in ArgSessionIds :
          res' = [session_id |-> sid, rows |-> SelectResults(sid)]
    /\ rcalls' = rcalls + 1
    /\ UNCHANGED <<MAX_PLAYERS, storeVars, wlock, joinVars, cl_op, cl_pc, cl_args,
                   cl_players, cl_seen, cl_state, cl_dup, calls, last>>

(* ------------------------------- Next --------------------------------- *)
Next ==
    \/ \E p \in Joiners : join_session_call(p)
    \/ \E p \in Joiners : join_session_select(p)
    \/ \E p \in Joiners : join_session_update(p)
    \/ \E p \in Joiners : join_session_insert(p)
    \/ \E p \in Joiners : join_session_collide(p)
    \/ \E c \in Clients : get_state_call(c)
    \/ \E c \in Clients : save_move_call(c)
    \/ \E c \in Clients : get_state_players(c)
    \/ \E c \in Clients : get_state_count(c)
    \/ \E c \in Clients : save_move_count(c)
    \/ \E c \in Clients : save_move_insert(c)
    \/ get_results

Spec == Init /\ [][Next]_vars

\* Scheduling of the join threads: a thread that can run its next statement
\* runs it (weak fairness; a statement that needs the write lock waits until
\* the holder commits).  A uuid4 drawn for a new session is, sooner or later,
\* one that is not in the table (strong fairness of the INSERT that succeeds).
JoinFairness ==
    \A p \in Joiners :
        /\ WF_vars(join_session_select(p))
        /\ WF_vars(join_session_update(p))
        /\ SF_vars(join_session_insert(p))

\* The steps of the join threads alone.  get_state and save_move never
\* write sessions and never keep the write lock from one step to the next,
\* so they neither enable nor disable a step of join_session.
JoinNext ==
    \/ \E p \in Joiners : join_session_call(p)
    \/ \E p \in Joiners : join_session_select(p)
    \/ \E p \in Joiners : join_session_update(p)
    \/ \E p \in Joiners : join_session_insert(p)
    \/ \E p \in Joiners : join_session_collide(p)

LiveSpec == Init /\ [][JoinNext]_vars /\ JoinFairness

\* no join call is between its call and its return
NoJoinInFlight == \A p \in Joiners : join_pc[p] \in {"idle", "done"}

\* The program when the join_session calls execute one at a time: a call is
\* made only when no other join call is in flight.  save_move, get_state and
\* get_results run concurrently as before.
SeqNext ==
    \/ \E p \in Joiners : NoJoinInFlight /\ join_session_call(p)
    \/ \E p \in Joiners : join_session_select(p)
    \/ \E p \in Joiners : join_session_update(p)
    \/ \E p \in Joiners : join_session_insert(p)
    \/ \E p \in Joiners : join_session_collide(p)
    \/ \E c \in Clients : get_state_call(c)
    \/ \E c \in Clients : save_move_call(c)
    \/ \E c \in Clients : get_state_players(c)
    \/ \E c \in Clients : get_state_count(c)
    \/ \E c \in Clients : save_move_count(c)
    \/ \E c \in Clients : save_move_insert(c)
    \/ get_results

SeqSpec == Init /\ [][SeqNext]_vars

(* ============================ properties ============================== *)
\* the join calls that returned session s
Returned(s) == {p \in Joiners : join_ret[p] = s}

\* C1: in every reachable state, under any interleaving of concurrent
\* join_session calls, every session has 1 <= player_count <= MAX_PLAYERS.
C1_PlayerCountInRange ==
    \A s \in DOMAIN sessions : 1 <= sessions[s] /\ sessions[s] <= MAX_PLAYERS

\* C1 witness: with MAX_PLAYERS = 2, a joiner is about to run its UPDATE with
\* a row it selected at player_count 1, and a concurrent join has meanwhile
\* filled that session.
C1_Witness ==
    /\ MAX_PLAYERS = 2
    /\ \E p \in Joiners :
          /\ join_pc[p] = "update"
          /\ join_row[p][2] = 1
          /\ sessions[join_row[p][1]] = MAX_PLAYERS

\* C2: the number of join calls that returned a session never exceeds
\* MAX_PLAYERS, and when no join is in flight it equals the session's stored
\* player_count (so the player_counts sum to the number of successful joins).
C2_ReturnsMatchPlayerCount ==
    \A s \in SessionIds :
        /\ Cardinality(Returned(s)) <= MAX_PLAYERS
        /\ NoJoinInFlight =>
              Cardinality(Returned(s)) = (IF s \in DOMAIN sessions THEN sessions[s] ELSE 0)

\* C2 witness: all joins have returned, two of them the same session, after
\* one of them lost the compare-and-swap on another session or found none open.
C2_Witness ==
    /\ \A p \in Joiners : join_pc[p] = "done"
    /\ \E s \in DOMAIN sessions : Cardinality(Returned(s)) = 2
    /\ Cardinality(DOMAIN sessions) = 2

\* C3 (as claimed): in every reachable state the number of moves recorded for
\* a session is at most its player_count, i.e. no move is inserted once the
\* session is finished.
C3_MovesAtMostPlayers ==
    \A s \in DOMAIN sessions : CountMoves(s) <= sessions[s]

\* C4: there is at most one move per (session_id, player_id); a save_move
\* that reaches its INSERT either inserts the pair's only row or, when a
\* concurrent call inserted it first, fails with DuplicateMove.
C4_OneMovePerPlayer ==
    /\ \A sid \in SessionIds, pid \in PlayerIds : Cardinality(MoveRows(sid, pid)) <= 1
    /\ (last # NoRow /\ last.op = "save_move" /\ last.result \in {"ok", "DuplicateMove"})
          => Cardinality(MoveRows(last.args.session_id, last.args.player_id)) = 1

\* C4 witness: a save_move whose pair had no move when it was called and
\* when it read the state, and which then lost the INSERT to a concurrent
\* save_move of the same pair.
C4_Witness ==
    /\ last # NoRow
    /\ last.op = "save_move"
    /\ last.result = "DuplicateMove"
    /\ ~last.dup
    /\ last.state.moves = 0
    /\ Cardinality(MoveRows(last.args.session_id, last.args.player_id)) = 1

\* a save_move for a pair that already had a move when the call was made
LastIsLaterMove == last # NoRow /\ last.op = "save_move" /\ last.dup

\* C5 (as claimed): after a save_move for (session_id, player_id) succeeded,
\* every later save_move for the same pair fails with DuplicateMove.
C5_LaterMoveIsDuplicate == LastIsLaterMove => last.result = "DuplicateMove"

\* C5 (amended): every later save_move for the same pair fails and leaves
\* the pair's single row: with DuplicateMove when the state it read is
\* waiting_for_moves, with InvalidState when the state it read is finished;
\* never with NotFound.
C5_LaterMoveRejected ==
    LastIsLaterMove =>
        /\ last.result \in {"DuplicateMove", "InvalidState"}
        /\ last.result = "DuplicateMove" <=> last.state.phase = "waiting_for_moves"
        /\ last.result = "InvalidState" <=> last.state.phase = "finished"
        /\ Cardinality(MoveRows(last.args.session_id, last.args.player_id)) = 1

\* C5 witness: a second save_move of a pair, with another choice than the
\* recorded one, has failed with DuplicateMove.
C5_Witness ==
    /\ LastIsLaterMove
    /\ last.result = "DuplicateMove"
    /\ \E i \in MoveRows(last.args.session_id, last.args.player_id) :
          moves[i].choice # last.args.choice

PhaseRank(phase) ==
    CASE phase = "waiting_for_opponent" -> 0
      [] phase = "waiting_for_moves" -> 1
      [] phase = "finished" -> 2

\* C6: the phase of a session (what get_state computes from the store) never
\* regresses, and never passes from waiting_for_opponent to finished in one
\* step.
C6_PhaseNeverRegresses ==
    [][\A s \in DOMAIN sessions :
          LET before == LiveState(s).phase
              after == (LiveState(s).phase)'
          IN  /\ PhaseRank(before) <= PhaseRank(after)
              /\ ~(before = "waiting_for_opponent" /\ after = "finished")]_vars

\* C6 witness: with MAX_PLAYERS = 2 a session has gone through
\* waiting_for_opponent and waiting_for_moves and is finished.
C6_Witness ==
    /\ MAX_PLAYERS = 2
    /\ \E s \in DOMAIN sessions : LiveState(s).phase = "finished"

\* C7: with weak fairness on each caller's steps, every join_session call
\* that has been made eventually returns a (session_id, player_id) pair.
C7_JoinEventuallyReturns ==
    \A p \in Joiners : (join_pc[p] = "select") ~> (join_pc[p] = "done")

\* C7 witness: with MAX_PLAYERS = 2 all three joins have returned, each with
\* a session of its own: every one of them found no open session and ran
\* the INSERT branch.
C7_Witness ==
    /\ MAX_PLAYERS = 2
    /\ \A p \in Joiners : join_pc[p] = "done"
    /\ Cardinality(DOMAIN sessions) = 3

\* C8: join_session never raises: no joiner ends in the 'Failed to join
\* existing session' branch, and a joiner that lost the compare-and-swap or
\* hit an id collision (it holds the open transaction) is still in its loop.
C8_JoinNeverRaises ==
    \A p \in Joiners :
        /\ join_pc[p] # "error"
        /\ wlock = <<"join", p>> => join_pc[p] \in {"select", "update", "insert"}

\* C8 witness: a joiner is back at the SELECT inside the transaction that its
\* failed UPDATE or INSERT opened.
C8_Witness ==
    \E p \in Joiners : wlock = <<"join", p>> /\ join_pc[p] = "select"

\* a get_state call has returned its dict
LastIsState == last # NoRow /\ last.op = "get_state" /\ last.result = "state"

\* C9 (as claimed): the dict get_state returns is the session's state in the
\* store (players the stored player_count, moves the number of move rows,
\* phase derived from them): the state at its return or, at the earliest,
\* the state when it first read the store.
C9_StateReflectsStore ==
    LastIsState =>
        \/ last.state = last.live
        \/ last.state = StateDict(last.state.players, last.seen)

\* C10: a save_move whose session is, at its phase check, in phase
\* waiting_for_opponent or finished fails with InvalidState; and a save_move
\* that fails (InvalidState, DuplicateMove, NotFound) changes neither table.
C10_RejectedMoveChangesNothing ==
    [][\A c \in Clients :
          /\ (/\ cl_op[c] = "save_move"
              /\ cl_pc[c] = "count"
              /\ cl_pc'[c] # "count"
              /\ LiveState(cl_args[c].session_id).phase
                    \in {"waiting_for_opponent", "finished"})
                => cl_pc'[c] = "idle" /\ last'.result = "InvalidState"
          /\ (/\ cl_op[c] = "save_move"
              /\ cl_pc[c] # "idle"
              /\ cl_pc'[c] = "idle"
              /\ last'.result # "ok")
                => moves' = moves /\ sessions' = sessions]_vars

\* C10 witness: a save_move on a session still waiting for its opponent has
\* failed with InvalidState while another session holds a recorded move.
C10_Witness ==
    /\ last # NoRow
    /\ last.op = "save_move"
    /\ last.result = "InvalidState"
    /\ last.state.phase = "waiting_for_opponent"
    /\ Len(moves) > 0

\* the ROWIDs of the move rows of a session
RowsOfSession(sid) == {i \in 1..Len(moves) : moves[i].session_id = sid}

\* C11: get_results(session_id) returns exactly the moves recorded for that
\* session, none of another session's, as {player, choice} pairs in insertion
\* (ROWID) order; the empty sequence when there are none; it returns them
\* whatever the session's phase and changes nothing.
C11_ResultsAreSessionMoves ==
    [][rcalls' # rcalls =>
          LET idx == RowsOfSession(res'.session_id)
              rows == res'.rows
          IN  /\ Len(rows) = Cardinality(idx)
              /\ \A i \in idx :
                    rows[Cardinality({j \in idx : j <= i})] =
                        [player |-> moves[i].player_id, choice |-> moves[i].choice]]_vars

\* C11 witness: get_results has returned the two moves of a session, the
\* move of player 2 (Defect) before the move of player 1 (Cooperate): the
\* order is neither that of the players nor that of the choices.
C11_Witness ==
    /\ res # NoRow
    /\ res.rows = << [player |-> 2, choice |-> "Defect"],
                     [player |-> 1, choice |-> "Cooperate"] >>

\* s is a prefix of t
IsPrefix(s, t) == Len(s) <= Len(t) /\ \A k \in 1..Len(s) : s[k] = t[k]

\* C17: the move log of a session is append-only: what get_results returns
\* for a session after a step has what it returned before the step as a
\* prefix, and the sequence a get_results call returned is a prefix of what
\* get_results returns for that session at any later time.
C17_ResultsAppendOnly ==
    /\ [](res # NoRow => IsPrefix(res.rows, SelectResults(res.session_id)))
    /\ [][\A sid \in ArgSessionIds :
              IsPrefix(SelectResults(sid), SelectResults(sid)')]_vars

\* C17 witness: get_results returned one move for a session that has two
\* moves by now.
C17_Witness ==
    /\ res # NoRow
    /\ Len(res.rows) = 1
    /\ Len(SelectResults(res.session_id)) = 2

\* C12: get_state with a session_id that is not in the store fails with
\* NotFound, save_move with such a session_id fails with the same NotFound
\* and inserts nothing; and every move row references an existing session.
C12_UnknownSessionNotFound ==
    /\ [](\A i \in 1..Len(moves) : moves[i].session_id \in DOMAIN sessions)
    /\ [][\A c \in Clients :
              (/\ cl_pc[c] = "players"
               /\ cl_pc'[c] # "players"
               /\ cl_args[c].session_id \notin DOMAIN sessions)
                 => /\ cl_pc'[c] = "idle"
                    /\ last'.op = cl_op[c]
                    /\ last'.result = "NotFound"
                    /\ moves' = moves]_vars

\* C12 witness: a save_move with a session_id that is not in the store has
\* failed with NotFound, while another session holds a recorded move.
C12_Witness ==
    /\ last # NoRow
    /\ last.op = "save_move"
    /\ last.result = "NotFound"
    /\ last.args.session_id \notin DOMAIN sessions
    /\ Len(moves) > 0

\* a step in which a join creates the first session of an empty store
FirstJoinStep == sessions = <<>> /\ sessions' # sessions

\* C13 (as claimed): for every MAX_PLAYERS >= 1, a join on a store with no
\* sessions creates exactly one session, whose state is players = 1 and
\* phase = waiting_for_opponent.
C13_FirstJoinWaitsForOpponent ==
    [][FirstJoinStep =>
          /\ Cardinality(DOMAIN sessions') = 1
          /\ \A s \in DOMAIN sessions' :
                /\ LiveState(s)'.players = 1
                /\ LiveState(s)'.phase = "waiting_for_opponent"]_vars

\* the phase of a session of one player without moves
PhaseOfFirstJoin ==
    IF MAX_PLAYERS >= 2 THEN "waiting_for_opponent" ELSE "waiting_for_moves"

\* C13 (amended): a join on a store with no sessions creates exactly one
\* session with players = 1 and no moves; its phase is waiting_for_opponent
\* when MAX_PLAYERS >= 2 and waiting_for_moves when MAX_PLAYERS = 1; and
\* get_state returns that phase whenever it returns players = 1, moves = 0.
C13_FirstJoinCreatesSession ==
    /\ [][FirstJoinStep =>
              /\ Cardinality(DOMAIN sessions') = 1
              /\ \A s \in DOMAIN sessions' :
                    LiveState(s)' = [players |-> 1, moves |-> 0,
                                     phase |-> PhaseOfFirstJoin]]_vars
    /\ []((LastIsState /\ last.state.players = 1 /\ last.state.moves = 0)
              => last.state.phase = PhaseOfFirstJoin)

\* C13 witness: with MAX_PLAYERS = 2 one join has returned, the store holds
\* its session alone, and get_state has returned players = 1 and
\* waiting_for_opponent for it.
C13_Witness ==
    /\ MAX_PLAYERS = 2
    /\ Cardinality(DOMAIN sessions) = 1
    /\ \E p \in Joiners : join_pc[p] = "done" /\ sessions[join_ret[p]] = 1
    /\ LastIsState
    /\ last.state = [players |-> 1, moves |-> 0, phase |-> "waiting_for_opponent"]

\* the rows of session sid are as they were when a call first read
\* (players, nmoves); rows are only added and player_count only grows, so
\* no write to the session lies between that read and now
Unwritten(sid, players, nmoves) ==
    sessions[sid] = players /\ Cardinality(RowsOfSession(sid)) = nmoves

\* C14: no step of get_state or of get_results changes a session or a move
\* row; and a get_state call returns the same dict as the get_state call on
\* the same session_id that returned before it, when no write to the session
\* lies between the first read of the earlier call and this return.
C14_ReadsChangeNothing ==
    [][/\ \A c \in Clients :
             (cl_op[c] = "get_state" /\ cl_pc'[c] # cl_pc[c])
                => (sessions' = sessions /\ moves' = moves)
       /\ rcalls' # rcalls => (sessions' = sessions /\ moves' = moves)
       /\ \A c \in Clients :
             (/\ cl_op[c] = "get_state"
              /\ cl_pc[c] = "count"
              /\ cl_pc'[c] = "idle"
              /\ LastIsState
              /\ last.args.session_id = cl_args[c].session_id
              /\ Unwritten(cl_args[c].session_id, last.state.players, last.seen)
              /\ Unwritten(cl_args[c].session_id, cl_players[c], cl_seen[c]))
                => last'.state = last.state]_vars

\* C14 witness: a get_state call on a full session has returned and a second
\* get_state call on the same session has made its first read, with no write
\* to the session since the first call's first read.
C14_Witness ==
    /\ LastIsState
    /\ last.state.phase = "waiting_for_moves"
    /\ \E c \in Clients :
          /\ cl_op[c] = "get_state"
          /\ cl_pc[c] = "count"
          /\ cl_args[c].session_id = last.args.session_id
          /\ Unwritten(cl_args[c].session_id, last.state.players, last.seen)
          /\ Unwritten(cl_args[c].session_id, cl_players[c], cl_seen[c])

\* the number of join calls that have returned
NumJoined == Cardinality({p \in Joiners : join_pc[p] = "done"})

C16_LostRaceHasWinner ==
    [][\A p \in Joiners :
          (join_pc[p] = "update" /\ join_pc'[p] = "select") =>
              /\ join_row[p][1] \in DOMAIN sessions
              /\ sessions[join_row[p][1]] > join_row[p][2]
              /\ \E q \in Joiners \ {p} :
                    join_pc[q] = "done" /\ join_ret[q] = join_row[p][1]
              /\ sessions' = sessions
              /\ moves' = moves
              /\ join_ret' = join_ret]_vars

\* C16 witness: a joiner is back at its SELECT after an UPDATE that matched
\* no row: the session it had selected has one player more than it selected.
C16_Witness ==
    \E p \in Joiners :
        /\ join_pc[p] = "select"
        /\ wlock = <<"join", p>>
        /\ join_row[p] # NoRow
        /\ sessions[join_row[p][1]] = join_row[p][2] + 1

\* C18 (as claimed): every move row carries a player_id that join_session
\* returned for the row's session (joiner p is handed player token p).
C18_MovesByJoinedPlayers ==
    \A i \in 1..Len(moves) : join_ret[moves[i].player_id] = moves[i].session_id

\* C19: a join that returns either increments the player_count of exactly
\* one session by one or inserts one session with player_count 1, leaves
\* every other session and all moves as they are, and returns that session;
\* a save_move that succeeds appends exactly its row and leaves sessions as
\* they are; nothing else changes the store, no session is deleted and no
\* player_count decreases.
C19_OneChangePerOperation ==
    [][/\ \A p \in Joiners :
             (join_pc[p] # "done" /\ join_pc'[p] = "done") =>
                 /\ moves' = moves
                 /\ \/ /\ join_ret'[p] \in DOMAIN sessions
                       /\ sessions' = [sessions EXCEPT ![join_ret'[p]] = @ + 1]
                    \/ /\ join_ret'[p] \notin DOMAIN sessions
                       /\ sessions' = sessions @@ (join_ret'[p] :> 1)
       /\ \A c \in Clients :
             (cl_op[c] = "save_move" /\ cl_pc[c] # "idle" /\ cl_pc'[c] = "idle"
                 /\ last'.result = "ok") =>
                 /\ sessions' = sessions
                 /\ moves' = Append(moves, cl_args[c])
       /\ sessions' # sessions =>
             \E p \in Joiners : join_pc[p] # "done" /\ join_pc'[p] = "done"
       /\ moves' # moves =>
             \E c \in Clients : cl_op[c] = "save_move" /\ cl_pc'[c] = "idle"
                                   /\ last'.result = "ok"
       /\ DOMAIN sessions \subseteq DOMAIN sessions'
       /\ \A s \in DOMAIN sessions : sessions'[s] >= sessions[s]]_vars

\* C19 witness: with MAX_PLAYERS = 2 a join has inserted a session, another
\* has incremented it, a third has inserted a second session, and a
\* save_move has added a row.
C19_Witness ==
    /\ MAX_PLAYERS = 2
    /\ NumJoined = 3
    /\ \E s, u \in DOMAIN sessions : sessions[s] = 2 /\ sessions[u] = 1
    /\ Len(moves) = 1

====
